---- MODULE Spec2Model ----
(***************************************************************************)
(* Model of tools/windows/make_weftend_w_icon.py: the stroke rasterizer    *)
(* draw_thick_polyline, the layer composer make_icon and the export        *)
(* driver main.                                                            *)
(*                                                                         *)
(* Numbers.  The program computes on floats; the model computes on exact   *)
(* rationals.  A coordinate or a length is an integer count of grid units  *)
(* of 1/den pixel (den is carried with every polyline), the parameter      *)
(* t_global and a stamp centre are fractions num/den.  math.hypot is the   *)
(* integer square root on that grid; the polylines the model draws from    *)
(* are chosen so that it is exact (3-4-5 triangles, collinear points) or   *)
(* the grid is 1/50 pixel.  int() of a non-negative value is floor.        *)
(*                                                                         *)
(* Pillow is outside the repository: an image is the ordered record of the *)
(* library calls made on it (the stroke layers composited, the alpha       *)
(* scaling, the filter), never its pixels; a stroke layer is the ordered   *)
(* list of the ellipses stamped on it and its blur radius.                 *)
(***************************************************************************)
EXTENDS Integers, Sequences, FiniteSets, TLC

VARIABLES
    \* ---- draw_thick_polyline called on its own (SpecDraw)
    call,        \* the arguments of the call
    drawn,       \* whether the call has returned
    base0,       \* the target canvas before the call
    base,        \* the target canvas
    layer,       \* the local layer when the call returned
    \* ---- main() (Spec)
    pc,          \* main's position
    run,         \* the number of invocations of the script so far
    idx,         \* position in sizes_png of the loop at lines 190-192
    dir_exists,  \* whether OUT_DIR exists
    files,       \* OUT_DIR: file name -> content
    manifest,    \* the lines printed by this run
    iolog,       \* the filesystem steps of this run, in order, with outcome
    im,          \* the image make_icon returned to main
    \* ---- make_icon's frame
    ipc,         \* make_icon's position
    size, pad, stroke, left, right,
    img,         \* the output canvas
    shadow,      \* the shadow canvas
    highlight,   \* the highlight canvas
    \* ---- history
    geom,        \* the geometry of every make_icon call so far
    renders,     \* <<size, image>> of every make_icon return so far
    done_files   \* the content of OUT_DIR at the end of each completed run

drawVars == <<call, drawn, base0, base, layer>>
mainVars == <<pc, run, idx, dir_exists, files, manifest, iolog, im>>
iconVars == <<ipc, size, pad, stroke, left, right, img, shadow, highlight>>
histVars == <<geom, renders, done_files>>
vars == <<drawVars, mainVars, iconVars, histVars>>

\* ---- bounds of the model
MaxPoints == 4
MaxRuns == 2

\* ------------------------------------------------------------ arithmetic

Max(a, b) == IF a >= b THEN a ELSE b
Min(a, b) == IF a <= b THEN a ELSE b

RECURSIVE IsqrtIter(_, _, _)
IsqrtIter(lo, hi, n) ==
    IF lo = hi THEN lo
    ELSE LET mid == (lo + hi + 1) \div 2
         IN IF mid * mid <= n THEN IsqrtIter(mid, hi, n)
                              ELSE IsqrtIter(lo, mid - 1, n)

\* floor(sqrt(n)) for 0 <= n < 2^31
Isqrt(n) == IsqrtIter(0, Min(n, 46340), n)

\* <<q, r>> with a * n = q * d + r and 0 <= r < d, without forming a * n
RECURSIVE MulDiv(_, _, _)
MulDiv(a, n, d) ==
    IF a = 0 THEN <<0, 0>>
    ELSE LET h == MulDiv(a \div 2, n, d)
             r2 == 2 * h[2] + (a % 2) * n
         IN <<2 * h[1] + r2 \div d, r2 % d>>

\* a/b <= c/d for a, c >= 0 and b, d > 0, without forming a * d
RECURSIVE QLeq(_, _, _, _)
QLeq(a, b, c, d) ==
    IF a \div b # c \div d THEN a \div b < c \div d
    ELSE IF a % b = 0 THEN TRUE
    ELSE IF c % d = 0 THEN FALSE
    ELSE QLeq(d, c % d, b, a % b)

\* ------------------------------------------------------------ lerp, rgb_lerp

\* lerp(a, b, n/d) * d: the numerator of a + (b - a) * t over d
lerp(a, b, n, d) == a * d + (b - a) * n

\* int(lerp(a, b, n/d)) for 0 <= a, b and 0 <= n/d <= 1
IntLerp(a, b, n, d) ==
    IF b >= a THEN a + MulDiv(b - a, n, d)[1]
    ELSE LET m == MulDiv(a - b, n, d)
         IN a - m[1] - (IF m[2] = 0 THEN 0 ELSE 1)

rgb_lerp(c1, c2, n, d) ==
    <<IntLerp(c1[1], c2[1], n, d), IntLerp(c1[2], c2[2], n, d),
      IntLerp(c1[3], c2[3], n, d), 255>>

\* ------------------------------------------------------------ draw_thick_polyline

Hypot(p, q) ==
    Isqrt((q[1] - p[1]) * (q[1] - p[1]) + (q[2] - p[2]) * (q[2] - p[2]))

SegLens(points) ==
    [i \in 1..(Len(points) - 1) |-> Hypot(points[i], points[i + 1])]

RECURSIVE SumTo(_, _)
SumTo(s, k) == IF k = 0 THEN 0 ELSE SumTo(s, k - 1) + s[k]

Total(points) == SumTo(SegLens(points), Len(points) - 1)

\* L <= 1e-6 (line 71), L in units of 1/den pixel
Negligible(L, den) == L <= den \div 1000000

\* total <= 1e-6 (line 64)
Degenerate_never(total, den) == FALSE
Degenerate(total, den) == total <= den \div 1000000

\* accum when the loop reaches segment i: the lengths of the segments before i
\* that were not skipped
RECURSIVE Accum(_, _, _)
Accum(seg_lens, den, i) ==
    IF i = 1 THEN 0
    ELSE Accum(seg_lens, den, i - 1)
         + (IF Negligible(seg_lens[i - 1], den) THEN 0 ELSE seg_lens[i - 1])

\* steps = max(8, int(L / 2))
Steps_nomax(L, den) == Max(1, L \div (2 * den))
Steps(L, den) == Max(8, L \div (2 * den))

\* the ellipse stamped at step s of a segment from p1 to p2 of length L, with
\* accum and total as the loop holds them
Stamp(c, i, p1, p2, L, steps, accum, total, s) ==
    LET tn == accum * steps + L * s
        td == total * steps
    IN [seg |-> i,
        cx |-> lerp(p1[1], p2[1], s, steps),
        cy |-> lerp(p1[2], p2[2], s, steps),
        cd |-> c.den * steps,
        w |-> c.width,
        col |-> rgb_lerp(c.c_start, c.c_end, tn, td),
        tn |-> tn,
        td |-> td]

\* the stamps of segment i, s = 0..steps: none when the segment is skipped
SegStamps(c, seg_lens, total, i) ==
    IF Negligible(seg_lens[i], c.den) THEN <<>>
    ELSE LET L == seg_lens[i]
             steps == Steps(L, c.den)
             accum == Accum(seg_lens, c.den, i)
         IN [k \in 1..(steps + 1) |->
                Stamp(c, i, c.points[i], c.points[i + 1], L, steps, accum, total,
                      k - 1)]

\* the stamps of segments 1..n in drawing order
RECURSIVE StampsTo(_, _, _, _)
StampsTo(c, seg_lens, total, n) ==
    IF n <= 0 THEN <<>>
    ELSE StampsTo(c, seg_lens, total, n - 1) \o SegStamps(c, seg_lens, total, n)

EmptyLayer == [stamps |-> <<>>, blur |-> 0]

\* the local layer when draw_thick_polyline returns
DrawnLayer(c) ==
    LET seg_lens == SegLens(c.points)
        total == SumTo(seg_lens, Len(c.points) - 1)
    IN IF Degenerate(total, c.den) THEN EmptyLayer
       ELSE [stamps |-> StampsTo(c, seg_lens, total, Len(c.points) - 1),
             blur |-> IF c.blur > 0 THEN c.blur ELSE 0]

\* the arguments of one draw_thick_polyline call; tag names the stroke
Call(tag, den, points, width, c_start, c_end, blur) ==
    [tag |-> tag, den |-> den, points |-> points, width |-> width,
     c_start |-> c_start, c_end |-> c_end, blur |-> blur]

NoCall == Call("none", 1, <<>>, 0, <<0, 0, 0>>, <<0, 0, 0>>, 0)

\* one library call on a canvas. A composited stroke layer is recorded by the
\* arguments c of the call that drew it: its content is DrawnLayer(c)
Op(op, tag, drew, sub, pct) ==
    [op |-> op, tag |-> tag, stroke |-> drew, sub |-> sub, pct |-> pct]

\* the target canvas after draw_thick_polyline(base, ...): unchanged on the
\* early return, else base.alpha_composite(layer)
draw_thick_polyline(b, c) ==
    IF Degenerate(Total(c.points), c.den) THEN b
    ELSE Append(b, Op("alpha_composite", c.tag, c, <<>>, 100))

\* ------------------------------------------------------------ make_icon: geometry

\* make_icon's coordinates are carried in units of 1/IconDen pixel: for an even
\* size, pad + n * (size - 2 * pad) with n in hundredths, and the shadow offsets
\* size * 0.01 and size * 0.02, are whole numbers of 1/50 pixel
IconDen == 50

\* pad = int(size * 0.12)
Pad_ceil(s) == (s * 12 + 99) \div 100
Pad(s) == (s * 12) \div 100

\* stroke = int(size * 0.13)
Stroke(s) == (s * 13) \div 100

\* P(nx, ny), n in hundredths
P_nopad(p, s, n) ==
    <<(n[1] * (s - 2 * p) * IconDen) \div 100,
      (n[2] * (s - 2 * p) * IconDen) \div 100>>
P(p, s, n) ==
    <<p * IconDen + (n[1] * (s - 2 * p) * IconDen) \div 100,
      p * IconDen + (n[2] * (s - 2 * p) * IconDen) \div 100>>

\* the normalized control points, in hundredths
LeftN == <<<<10, 15>>, <<28, 80>>, <<48, 45>>, <<62, 80>>, <<82, 15>>>>
RightN == <<<<18, 15>>, <<36, 78>>, <<50, 52>>, <<68, 78>>, <<90, 15>>>>

Left(s) == [k \in 1..Len(LeftN) |-> P(Pad(s), s, LeftN[k])]
Right(s) == [k \in 1..Len(RightN) |-> P(Pad(s), s, RightN[k])]

\* [(x + size * 0.01, y + size * 0.02) for (x, y) in pts]
Offset(pts, s) ==
    [k \in 1..Len(pts) |->
        <<pts[k][1] + (s * IconDen) \div 100, pts[k][2] + (2 * s * IconDen) \div 100>>]

\* width = max(1, int(stroke * 0.45))
HighlightWidth(st) == Max(1, (st * 45) \div 100)

\* the six draw_thick_polyline calls of make_icon, from its locals
ShadowCall(side, pts, s, st) ==
    Call("shadow_" \o side, IconDen, Offset(pts, s), st, <<0, 0, 0>>, <<0, 0, 0>>, 8)

RibbonLeftCall(pts, st) ==
    Call("left", IconDen, pts, st, <<0, 210, 255>>, <<150, 70, 255>>, 0)

RibbonRightCall(pts, st) ==
    Call("right", IconDen, pts, st, <<80, 255, 210>>, <<255, 40, 200>>, 0)

HighlightCall(side, pts, st) ==
    Call("highlight_" \o side, IconDen, pts, HighlightWidth(st),
         <<255, 255, 255>>, <<255, 255, 255>>, 2)

\* sizes_png and the base size of the icon container
sizes_png_short == <<1024, 512>>
sizes_png == <<1024, 512, 256>>
IcoBase_small == 256 \div 2
IcoBase == 256
ico_sizes ==
    <<<<256, 256>>, <<128, 128>>, <<64, 64>>, <<48, 48>>, <<32, 32>>, <<24, 24>>,
      <<16, 16>>>>

RenderSizes == {sizes_png[k] : k \in 1..Len(sizes_png)} \cup {IcoBase}

IconCalls ==
    UNION {{ShadowCall("left", Left(s), s, Stroke(s)),
            ShadowCall("right", Right(s), s, Stroke(s)),
            RibbonLeftCall(Left(s), Stroke(s)),
            RibbonRightCall(Right(s), Stroke(s)),
            HighlightCall("left", Left(s), Stroke(s)),
            HighlightCall("right", Right(s), Stroke(s))} : s \in RenderSizes}

\* ------------------------------------------------------------ inputs of SpecDraw

\* corners of a right triangle with sides 15, 20 and 25 pixel, on the pixel
\* grid: int(L / 2) is 7, 10 and 12, so steps is 8 (the minimum), 10 and 12
PixelPoints == {<<0, 0>>, <<15, 0>>, <<15, 20>>}

\* collinear points 1e-6 and 3e-6 pixel apart, on a grid of 1e-6 pixel
MicroPoints == {<<0, 0>>, <<1, 0>>, <<4, 0>>}

Polylines(S) == UNION {[1..k -> S] : k \in 1..MaxPoints}

Colours == {<<0, 200, 255>>, <<255, 0, 220>>}

GenericCalls ==
    {Call("stroke", 1, pts, w, c1, c2, b) :
        pts \in Polylines(PixelPoints), w \in {1, 6}, c1 \in Colours,
        c2 \in Colours, b \in {0, 2}}
    \cup
    {Call("stroke", 1000000, pts, w, c1, c2, b) :
        pts \in Polylines(MicroPoints), w \in {1, 6}, c1 \in Colours,
        c2 \in Colours, b \in {0, 2}}

\* something already on the target canvas
PriorOp == Op("alpha_composite", "prior", NoCall, <<>>, 100)

\* ------------------------------------------------------------ state of a fresh process

\* no image yet
NoImage == [size |-> 0, ops |-> <<>>]

FreshMain ==
    /\ pc = "idle" /\ run = 0 /\ idx = 0
    /\ files = <<>> /\ manifest = <<>> /\ iolog = <<>> /\ im = NoImage

FreshIcon ==
    /\ ipc = "none" /\ size = 0 /\ pad = 0 /\ stroke = 0
    /\ left = <<>> /\ right = <<>>
    /\ img = <<>> /\ shadow = <<>> /\ highlight = <<>>

FreshHist == geom = {} /\ renders = {} /\ done_files = <<>>

\* ------------------------------------------------------------ SpecDraw

\* one call of draw_thick_polyline, on arguments drawn from the generic
\* polylines and from the calls make_icon makes
InitDraw ==
    /\ call \in GenericCalls \cup IconCalls
    /\ base0 \in {<<>>, <<PriorOp>>}
    /\ base = base0
    /\ drawn = FALSE
    /\ layer = EmptyLayer
    /\ FreshMain /\ dir_exists = TRUE /\ FreshIcon /\ FreshHist

Draw ==
    /\ ~drawn
    /\ drawn' = TRUE
    /\ layer' = DrawnLayer(call)
    /\ base' = draw_thick_polyline(base, call)
    /\ UNCHANGED <<call, base0, mainVars, iconVars, histVars>>

NextDraw == Draw

SpecDraw == InitDraw /\ [][NextDraw]_vars

\* ------------------------------------------------------------ make_icon

\* Image.new("RGBA", (size, size), (0, 0, 0, 0)): a canvas nothing was done to
NewImage_stale == img
NewImage == <<>>

\* make_icon's statements after the geometry, in program order
IconOrder_sharpen_early ==
    <<"shadow_left", "shadow_right", "shadow_merge", "ribbon_left", "ribbon_right",
      "highlight_left", "highlight_right", "sharpen", "highlight_merge", "return">>
IconOrder ==
    <<"shadow_left", "shadow_right", "shadow_merge", "ribbon_left", "ribbon_right",
      "highlight_left", "highlight_right", "highlight_merge", "sharpen", "return">>

NextStep(s) ==
    IconOrder[(CHOOSE k \in 1..Len(IconOrder) : IconOrder[k] = s) + 1]

\* lines 98-121: the output canvas and the geometry
EnterMakeIcon(s) ==
    /\ size' = s
    /\ img' = NewImage
    /\ pad' = Pad(s)
    /\ left' = [k \in 1..Len(LeftN) |-> P(pad', s, LeftN[k])]
    /\ right' = [k \in 1..Len(RightN) |-> P(pad', s, RightN[k])]
    /\ stroke' = Stroke(s)
    /\ ipc' = IconOrder[1]
    /\ geom' = geom \cup {[size |-> s, pad |-> pad', stroke |-> stroke',
                           left |-> left', right |-> right']}
    /\ UNCHANGED <<shadow, highlight, renders, done_files>>

IconFrame == <<size, pad, stroke, left, right>>

\* lines 123-131
ShadowLeft ==
    /\ ipc = "shadow_left"
    /\ shadow' = draw_thick_polyline(NewImage, ShadowCall("left", left, size, stroke))
    /\ ipc' = NextStep(ipc)
    /\ UNCHANGED <<IconFrame, img, highlight, drawVars, mainVars, histVars>>

\* lines 132-139
ShadowRight ==
    /\ ipc = "shadow_right"
    /\ shadow' = draw_thick_polyline(shadow, ShadowCall("right", right, size, stroke))
    /\ ipc' = NextStep(ipc)
    /\ UNCHANGED <<IconFrame, img, highlight, drawVars, mainVars, histVars>>

\* lines 140-142: the shadow's alpha scaled by 0.20, then composited
ShadowMerge ==
    /\ ipc = "shadow_merge"
    /\ shadow' = Append(shadow, Op("putalpha", "shadow", NoCall, <<>>, 20))
    /\ img' = Append(img, Op("alpha_composite", "shadow", NoCall, shadow', 100))
    /\ ipc' = NextStep(ipc)
    /\ UNCHANGED <<IconFrame, highlight, drawVars, mainVars, histVars>>

\* lines 144-151
RibbonLeft ==
    /\ ipc = "ribbon_left"
    /\ img' = draw_thick_polyline(img, RibbonLeftCall(left, stroke))
    /\ ipc' = NextStep(ipc)
    /\ UNCHANGED <<IconFrame, shadow, highlight, drawVars, mainVars, histVars>>

\* lines 152-159
RibbonRight ==
    /\ ipc = "ribbon_right"
    /\ img' = draw_thick_polyline(img, RibbonRightCall(right, stroke))
    /\ ipc' = NextStep(ipc)
    /\ UNCHANGED <<IconFrame, shadow, highlight, drawVars, mainVars, histVars>>

\* lines 161-169
HighlightLeft ==
    /\ ipc = "highlight_left"
    /\ highlight' = draw_thick_polyline(NewImage, HighlightCall("left", left, stroke))
    /\ ipc' = NextStep(ipc)
    /\ UNCHANGED <<IconFrame, img, shadow, drawVars, mainVars, histVars>>

\* lines 170-177
HighlightRight ==
    /\ ipc = "highlight_right"
    /\ highlight' = draw_thick_polyline(highlight,
                                        HighlightCall("right", right, stroke))
    /\ ipc' = NextStep(ipc)
    /\ UNCHANGED <<IconFrame, img, shadow, drawVars, mainVars, histVars>>

\* lines 178-180: the highlight's alpha scaled by 0.18, then composited
HighlightMerge ==
    /\ ipc = "highlight_merge"
    /\ highlight' = Append(highlight, Op("putalpha", "highlight", NoCall, <<>>, 18))
    /\ img' = Append(img, Op("alpha_composite", "highlight", NoCall, highlight', 100))
    /\ ipc' = NextStep(ipc)
    /\ UNCHANGED <<IconFrame, shadow, drawVars, mainVars, histVars>>

\* line 182: UnsharpMask(radius=2, percent=150, threshold=3)
Sharpen ==
    /\ ipc = "sharpen"
    /\ img' = Append(img, Op("filter", "UnsharpMask", NoCall, <<>>, 150))
    /\ ipc' = NextStep(ipc)
    /\ UNCHANGED <<IconFrame, shadow, highlight, drawVars, mainVars, histVars>>

\* line 183, and the assignment of the result in main (lines 191, 195)
Return ==
    /\ ipc = "return"
    /\ im' = [size |-> size, ops |-> img]
    /\ renders' = renders \cup {im'}
    /\ ipc' = "none"
    /\ pc' = IF pc = "in_png" THEN "save_png" ELSE "save_ico"
    /\ UNCHANGED <<IconFrame, img, shadow, highlight, drawVars, run, idx,
                   dir_exists, files, manifest, iolog, geom, done_files>>

\* ------------------------------------------------------------ main

NAME == "weftend_W"

PngName(s) == NAME \o "_" \o ToString(s) \o ".png"
IcoName == NAME \o ".ico"

\* im.save(path): a PNG of the image at its own size
PngFile(image) ==
    [format |-> "PNG", image |-> image, sizes |-> <<<<image.size, image.size>>>>,
     complete |-> TRUE]

\* base.save(path, format="ICO", sizes=ico_sizes): Pillow writes one entry per
\* requested size that is no larger than the image and no larger than 256
IcoFile(image, sizes) ==
    [format |-> "ICO", image |-> image,
     sizes |-> SelectSeq(sizes, LAMBDA s : /\ s[1] <= image.size
                                          /\ s[2] <= image.size
                                          /\ s[1] <= 256 /\ s[2] <= 256),
     complete |-> TRUE]

\* what a write that failed may leave at the path
PartialFile(format) ==
    [format |-> format, image |-> NoImage, sizes |-> <<>>, complete |-> FALSE]

\* main has no try/except: an exception ends the run
AfterFailure_swallow(next) == next
AfterFailure(next) == "failed"

Logged(step, ok) == Append(iolog, [step |-> step, ok |-> ok])

\* the script is run: a new process, nothing kept but the directory
Invoke ==
    /\ pc \in {"idle", "done", "failed"}
    /\ run < MaxRuns
    /\ run' = run + 1
    /\ pc' = "mkdir"
    /\ idx' = 0 /\ manifest' = <<>> /\ iolog' = <<>> /\ im' = NoImage
    /\ ipc' = "none" /\ size' = 0 /\ pad' = 0 /\ stroke' = 0
    /\ left' = <<>> /\ right' = <<>>
    /\ img' = <<>> /\ shadow' = <<>> /\ highlight' = <<>>
    /\ UNCHANGED <<drawVars, dir_exists, files, histVars>>

\* line 187: OUT_DIR.mkdir(parents=True, exist_ok=True)
Mkdir ==
    /\ pc = "mkdir"
    /\ \/ /\ dir_exists' = TRUE
          /\ iolog' = Logged("mkdir", TRUE)
          /\ pc' = "render"
       \/ /\ ~dir_exists
          /\ dir_exists' = dir_exists
          /\ iolog' = Logged("mkdir", FALSE)
          /\ pc' = AfterFailure("render")
    /\ idx' = 1
    /\ UNCHANGED <<drawVars, run, files, manifest, im, iconVars, histVars>>

\* line 191: im = make_icon(s), entered
CallMakeIconPng ==
    /\ pc = "render"
    /\ idx <= Len(sizes_png)
    /\ pc' = "in_png"
    /\ EnterMakeIcon(sizes_png[idx])
    /\ UNCHANGED <<drawVars, run, idx, dir_exists, files, manifest, iolog, im>>

\* line 192: im.save(OUT_DIR / f"{NAME}_{s}.png")
SavePng ==
    /\ pc = "save_png"
    /\ LET name == PngName(sizes_png[idx])
           next == IF idx < Len(sizes_png) THEN "render" ELSE "render_ico"
       IN \/ /\ dir_exists
             /\ files' = (name :> PngFile(im)) @@ files
             /\ iolog' = Logged(name, TRUE)
             /\ pc' = next
          \/ /\ \E partial \in BOOLEAN :
                    files' = IF partial /\ dir_exists
                             THEN (name :> PartialFile("PNG")) @@ files
                             ELSE files
             /\ iolog' = Logged(name, FALSE)
             /\ pc' = AfterFailure(next)
    /\ idx' = idx + 1
    /\ UNCHANGED <<drawVars, run, dir_exists, manifest, im, iconVars, histVars>>

\* line 195: base = make_icon(256), entered
CallMakeIconIco ==
    /\ pc = "render_ico"
    /\ pc' = "in_ico"
    /\ EnterMakeIcon(IcoBase)
    /\ UNCHANGED <<drawVars, run, idx, dir_exists, files, manifest, iolog, im>>

\* line 196: base.save(OUT_DIR / f"{NAME}.ico", format="ICO", sizes=ico_sizes)
SaveIco ==
    /\ pc = "save_ico"
    /\ \/ /\ dir_exists
          /\ files' = (IcoName :> IcoFile(im, ico_sizes)) @@ files
          /\ iolog' = Logged(IcoName, TRUE)
          /\ pc' = "print"
       \/ /\ \E partial \in BOOLEAN :
                 files' = IF partial /\ dir_exists
                          THEN (IcoName :> PartialFile("ICO")) @@ files
                          ELSE files
          /\ iolog' = Logged(IcoName, FALSE)
          /\ pc' = AfterFailure("print")
    /\ UNCHANGED <<drawVars, run, idx, dir_exists, manifest, im, iconVars, histVars>>

\* lines 198-201: the manifest
PrintManifest ==
    /\ pc = "print"
    /\ manifest' = <<"W icon generated:">>
                   \o [k \in 1..Len(sizes_png) |-> PngName(sizes_png[k])]
                   \o <<IcoName>>
    /\ pc' = "done"
    /\ done_files' = Append(done_files, files)
    /\ UNCHANGED <<drawVars, run, idx, dir_exists, files, iolog, im, iconVars,
                   geom, renders>>

Init ==
    /\ call = NoCall /\ drawn = FALSE /\ base0 = <<>> /\ base = <<>>
    /\ layer = EmptyLayer
    /\ FreshMain /\ dir_exists \in BOOLEAN /\ FreshIcon /\ FreshHist

Next ==
    \/ Invoke
    \/ Mkdir
    \/ CallMakeIconPng
    \/ ShadowLeft
    \/ ShadowRight
    \/ ShadowMerge
    \/ RibbonLeft
    \/ RibbonRight
    \/ HighlightLeft
    \/ HighlightRight
    \/ HighlightMerge
    \/ Sharpen
    \/ Return
    \/ SavePng
    \/ CallMakeIconIco
    \/ SaveIco
    \/ PrintManifest

Spec == Init /\ [][Next]_vars

\* ------------------------------------------------------------ claims on draw_thick_polyline

AllSame(points) == \A i, j \in DOMAIN points : points[i] = points[j]

\* C2: a polyline whose points are all identical leaves the target canvas as
\* it was: the call returns with nothing stamped on the layer, no blur applied
\* and no composite onto the canvas, whatever the width, colours and blur.
C2_DegenerateNoOp ==
    (drawn /\ AllSame(call.points)) =>
        /\ base = base0
        /\ layer.stamps = <<>>
        /\ layer.blur = 0

C2_Witness ==
    /\ drawn
    /\ AllSame(call.points)
    /\ Len(call.points) >= 3
    /\ call.blur > 0
    /\ base0 # <<>>
    /\ base = base0

\* the direction of one colour channel between two consecutive stamps
ChannelMoves(c, a, b, ch) ==
    IF c.c_start[ch] <= c.c_end[ch] THEN a.col[ch] <= b.col[ch]
                                    ELSE a.col[ch] >= b.col[ch]

\* C3: for every polyline of positive total length the stamps, in drawing
\* order, have a parameter t that starts at 0, ends at 1 and never decreases,
\* and each of R, G, B moves only from the start colour towards the end colour.
\* (Positive is read as the code reads it, a total above 1e-6, and the
\* statement is about the stamps the call drew, if it drew any.)
C3_GradientParameter ==
    (drawn /\ Total(call.points) > call.den \div 1000000
           /\ layer.stamps # <<>>) =>
        LET st == layer.stamps
        IN /\ st[1].tn = 0
           /\ st[Len(st)].tn = st[Len(st)].td
           /\ \A k \in 1..(Len(st) - 1) :
                /\ QLeq(st[k].tn, st[k].td, st[k + 1].tn, st[k + 1].td)
                /\ \A ch \in 1..3 : ChannelMoves(call, st[k], st[k + 1], ch)

\* C10: a segment longer than 1e-6 gets max(8, floor(L/2)) + 1 evenly spaced
\* stamps from its first point to its last, a segment at or below 1e-6 gets
\* none; and in every stroke make_icon draws, consecutive stamp centres of a
\* segment are closer to each other than the stroke width.
C10_StampDensity ==
    drawn =>
        LET st == layer.stamps
            sl == SegLens(call.points)
        IN /\ \A i \in DOMAIN sl :
                LET ks == {k \in DOMAIN st : st[k].seg = i}
                    n == Max(8, sl[i] \div (2 * call.den))
                    eps == call.den \div 1000000
                IN IF sl[i] <= eps \/ Total(call.points) <= eps
                   THEN ks = {}
                   ELSE /\ Cardinality(ks) = n + 1
                        /\ Cardinality(ks) >= 8
                        /\ \A k \in ks :
                             /\ st[k].cd = call.den * n
                             /\ (k - 1) \notin ks =>
                                  /\ st[k].cx = call.points[i][1] * n
                                  /\ st[k].cy = call.points[i][2] * n
                             /\ (k + 1) \notin ks =>
                                  /\ st[k].cx = call.points[i + 1][1] * n
                                  /\ st[k].cy = call.points[i + 1][2] * n
                             /\ (k + 1) \in ks =>
                                  /\ st[k + 1].cx - st[k].cx
                                       = call.points[i + 1][1] - call.points[i][1]
                                  /\ st[k + 1].cy - st[k].cy
                                       = call.points[i + 1][2] - call.points[i][2]
           /\ call \in IconCalls =>
                \A k \in 1..(Len(st) - 1) :
                    st[k + 1].seg = st[k].seg =>
                        LET dx == st[k + 1].cx - st[k].cx
                            dy == st[k + 1].cy - st[k].cy
                        IN Isqrt(dx * dx + dy * dy) < st[k].w * st[k].cd

C10_Witness ==
    /\ drawn
    /\ call \in IconCalls
    /\ call.width = 14
    /\ Len(layer.stamps) > 4 * 9
    /\ \E k \in DOMAIN layer.stamps : layer.stamps[k].seg = 4

\* ------------------------------------------------------------ claims on make_icon and main

Tags(ops) == [k \in DOMAIN ops |-> ops[k].tag]

IsPrefix(s, u) == Len(s) <= Len(u) /\ \A k \in 1..Len(s) : s[k] = u[k]

CanonicalName == NAME \o ".png"

FourFiles == {NAME \o "_1024.png", NAME \o "_512.png", NAME \o "_256.png",
              NAME \o ".ico"}

\* C1 as stated: one run on a fresh directory leaves exactly 5 files, the three
\* size-suffixed PNGs, the canonical <name>.png holding the 1024 render, and
\* the icon container.
C1_FiveFiles ==
    (pc = "done" /\ run = 1) =>
        /\ DOMAIN files = FourFiles \cup {CanonicalName}
        /\ files[CanonicalName].image.size = 1024

\* C1 amended: one run on a fresh directory leaves exactly 4 files, the three
\* size-suffixed PNGs, each holding the render of its size, and the icon
\* container; no canonical <name>.png is written.
C1_FourFiles ==
    (pc = "done" /\ run = 1) =>
        /\ DOMAIN files = FourFiles
        /\ CanonicalName \notin DOMAIN files
        /\ \A f \in DOMAIN files : files[f].complete
        /\ \A s \in {1024, 512, 256} :
             /\ files[NAME \o "_" \o ToString(s) \o ".png"].format = "PNG"
             /\ files[NAME \o "_" \o ToString(s) \o ".png"].image.size = s
        /\ files[NAME \o ".ico"].format = "ICO"

C1_Witness == pc = "done" /\ run = 1 /\ Cardinality(DOMAIN files) = 4

Dist(a, b) == IF a >= b THEN a - b ELSE b - a

\* C4: each of the 10 control points lands, at size 512, within 1 pixel per
\* coordinate of twice where it lands at size 256.
C4_TwoTimesScale ==
    \A a, b \in geom :
        (a.size = 512 /\ b.size = 256) =>
            /\ Len(a.left) + Len(a.right) = 10
            /\ \A k \in 1..5 : \A ax \in 1..2 :
                 /\ Dist(a.left[k][ax], 2 * b.left[k][ax]) <= IconDen
                 /\ Dist(a.right[k][ax], 2 * b.right[k][ax]) <= IconDen

C4_Witness ==
    /\ \E a \in geom : a.size = 512 /\ a.left[1] = <<5000, 5975>>
    /\ \E b \in geom : b.size = 256

\* C5 as stated: pad(k * S) = k * pad(S) and stroke(k * S) = k * stroke(S) for
\* the rendered sizes.
C5_ExactProportion ==
    \A a, b \in geom : \A k \in {2, 4} :
        a.size = k * b.size =>
            /\ a.pad = k * b.pad
            /\ a.stroke = k * b.stroke

\* C5 amended: pad and stroke are the integer parts of 0.12 * size and
\* 0.13 * size, so between rendered sizes they are proportional up to the
\* truncation only: k * pad(S) <= pad(k * S) <= k * pad(S) + (k - 1), and
\* the same for stroke.
C5_ProportionUpToTruncation ==
    \A a, b \in geom :
        /\ 100 * a.pad <= 12 * a.size /\ 12 * a.size < 100 * (a.pad + 1)
        /\ 100 * a.stroke <= 13 * a.size /\ 13 * a.size < 100 * (a.stroke + 1)
        /\ \A k \in {2, 4} :
             a.size = k * b.size =>
                /\ k * b.pad <= a.pad /\ a.pad <= k * b.pad + (k - 1)
                /\ k * b.stroke <= a.stroke /\ a.stroke <= k * b.stroke + (k - 1)

C5_Witness ==
    /\ \E a \in geom : a.size = 1024 /\ a.stroke = 133
    /\ \E b \in geom : b.size = 512 /\ b.stroke = 66
    /\ \E c \in geom : c.size = 256 /\ c.pad = 30

FixedOrder == <<"shadow", "left", "right", "highlight", "UnsharpMask">>

CompositedInOrder ==
    /\ IsPrefix(Tags(img), FixedOrder)
    /\ \A k \in DOMAIN img :
         img[k].op = IF img[k].tag = "UnsharpMask" THEN "filter"
                                                     ELSE "alpha_composite"
    /\ ipc = "return" => Tags(img) = FixedOrder
    /\ \A r \in renders : Tags(r.ops) = FixedOrder
    /\ \A f \in DOMAIN files : files[f].complete => files[f].image \in renders

OnlyAppended ==
    (ipc # "none" /\ ipc' # "none") =>
        /\ IsPrefix(img, img')
        /\ Len(img') <= Len(img) + 1

\* C6: the output canvas of make_icon changes only by one appended whole-layer
\* composite at a time, in the order shadow, left stroke, right stroke,
\* highlight, each once; the sharpening filter follows the highlight composite,
\* and what is returned and saved is that result, untouched.
C6_FixedLayerOrder == [](CompositedInOrder) /\ [][OnlyAppended]_vars

C6_Witness ==
    /\ ipc = "return"
    /\ size = 1024
    /\ Len(img) = 5
    /\ img[5].op = "filter"
    /\ img[4].tag = "highlight"

IoOrder == <<"mkdir", NAME \o "_1024.png", NAME \o "_512.png", NAME \o "_256.png",
             NAME \o ".ico">>

\* C7: a failed mkdir or file write is the last filesystem step of its run:
\* the run is over (no retry, no later file written, no manifest printed) and
\* the files the run wrote before it are in place.
C7_FailureHalts ==
    /\ IsPrefix([k \in DOMAIN iolog |-> iolog[k].step], IoOrder)
    /\ \A k \in DOMAIN iolog :
         ~iolog[k].ok =>
            /\ k = Len(iolog)
            /\ pc = "failed"
            /\ ipc = "none"
            /\ manifest = <<>>
            /\ \A j \in 2..(k - 1) :
                 /\ iolog[j].step \in DOMAIN files
                 /\ files[iolog[j].step].complete

C7_Witness ==
    /\ pc = "failed"
    /\ Len(iolog) = 3
    /\ ~iolog[3].ok
    /\ files[NAME \o "_1024.png"].complete
    /\ NAME \o "_256.png" \notin DOMAIN files

\* C8: make_icon(S) returns the same image for the same S whenever it is
\* called, and every completed run of main leaves the same files with the same
\* contents as the completed runs before it.
C8_Idempotent ==
    /\ \A a, b \in renders : a.size = b.size => a = b
    /\ \A i, j \in DOMAIN done_files : done_files[i] = done_files[j]

C8_Witness ==
    /\ pc = "done"
    /\ run = 2
    /\ Len(done_files) = 2
    /\ Cardinality(renders) = 3

\* C9: the icon container holds exactly the 7 configured sub-resolutions, each
\* square, pairwise distinct, none larger than the 256-pixel base render.
C9_IcoEntries ==
    (IcoName \in DOMAIN files /\ files[IcoName].complete) =>
        LET e == files[IcoName].sizes
        IN /\ files[IcoName].image.size = 256
           /\ Len(e) = 7
           /\ {e[k][1] : k \in DOMAIN e} = {256, 128, 64, 48, 32, 24, 16}
           /\ \A k \in DOMAIN e :
                /\ e[k][1] = e[k][2]
                /\ e[k][1] <= files[IcoName].image.size
           /\ \A j, k \in DOMAIN e : j # k => e[j] # e[k]

C9_Witness ==
    /\ IcoName \in DOMAIN files
    /\ files[IcoName].complete
    /\ Len(files[IcoName].sizes) = 7

====
